---- MODULE Spec2Model ----
(***************************************************************************)
(* A model of the zenith lexer: the cursor of zenith-lexer/src/lexer.rs    *)
(* (struct Lexer) and the tokenizer loop of zenith-lexer/src/lib.rs        *)
(* (tokenize_code).  A character is a one-character string, a text is a    *)
(* sequence of characters.  Indices are 0-based as in the source:          *)
(* chars.get(i) is chars[i + 1] here.                                      *)
(***************************************************************************)
EXTENDS Integers, Sequences, FiniteSets, TLC

VARIABLES
    chars,      \* Lexer.chars: the input, fixed by Lexer::new
    idx,        \* Lexer.idx
    pos,        \* Lexer.pos
    last_pos,   \* Lexer.last_pos
    tokens,     \* the local `tokens` vector of tokenize_code
    pc,         \* "loop": in the while loop; "done": returned; "panic": aborted
    panic_msg,  \* the fields of the panic message, <<>> while not panicked
    emitted,    \* history: every EnrichedToken pushed, in push order
    spans,      \* history: per pushed token, the indices its iteration covered
    calls,      \* history: the increment_idx / decrement_idx calls made so far
    expect,     \* the token whose source text is being tokenized again, if any
    other       \* the outcome of tokenize_code while lex_code runs on the input

vars ==
    <<chars, idx, pos, last_pos, tokens, pc, panic_msg, emitted, spans, calls,
      expect, other>>

-----------------------------------------------------------------------------
(* Bounds of the model *)

\* the longest input is the concatenation of MaxPieces pieces
MaxPieces == 3

\* The fragments inputs are built from.  They give every arm of the match a
\* character to dispatch on: whitespace with and without a newline; the
\* keywords in and end, which a letter or a word extends to a builtin type
\* (int) or to an identifier (endpoint); an upper-case spelling; an
\* underscore; a digit and a dot; the string quote, the escape character and
\* an escaped quote; the characters of := and []; the slash; and a character
\* outside the token alphabet.
Pieces ==
    { <<" ">>, <<"\n">>,
      <<"i", "n">>, <<"t">>, <<"e", "n", "d">>, <<"p", "o", "i", "n", "t">>,
      <<"I", "N">>, <<"_">>,
      <<"7">>, <<".">>,
      <<"\"">>, <<"\\">>, <<"\\", "\"">>,
      <<":">>, <<"=">>, <<"[">>, <<"]">>, <<"/">>,
      <<"~">> }

RECURSIVE Concats(_, _)
Concats(P, n) ==
    IF n = 0 THEN { <<>> }
    ELSE LET prev == Concats(P, n - 1)
         IN  prev \cup { p \o q : p \in prev, q \in P }

Inputs == Concats(Pieces, MaxPieces)

-----------------------------------------------------------------------------
(* Character classes *)

\* Option::None of chars.get(..): a value that is no character
None == "<none>"

Letters ==
    { "a", "b", "c", "d", "e", "f", "g", "h", "i", "j", "k", "l", "m",
      "n", "o", "p", "q", "r", "s", "t", "u", "v", "w", "x", "y", "z",
      "A", "B", "C", "D", "E", "F", "G", "H", "I", "J", "K", "L", "M",
      "N", "O", "P", "Q", "R", "S", "T", "U", "V", "W", "X", "Y", "Z" }

Digits == { "0", "1", "2", "3", "4", "5", "6", "7", "8", "9" }

\* char::is_whitespace, on the ASCII range
is_whitespace(ch) == ch \in { " ", "\t", "\n", "\r", "\f" }

is_identifier(ch) == ch \in Letters \/ ch = "_"

\* Faulty variant of is_punctuation: it also accepts the tilde, which the
\* table of single characters does not have.
is_punctuation_with_tilde(ch) ==
    ch \in { "!", "#", "$", "%", "&", "(", ")", "*", "+", "-",
             ",", ".", "/", ":", ";", "<", "=", ">", "?", "@",
             "[", "\\", "]", "^", "{", "|", "}", "~" }

is_punctuation(ch) ==
    ch \in { "!", "#", "$", "%", "&", "(", ")", "*", "+", "-",
             ",", ".", "/", ":", ";", "<", "=", ">", "?", "@",
             "[", "\\", "]", "^", "{", "|", "}" }

is_number(ch) == ch \in Digits

-----------------------------------------------------------------------------
(* Position and the cursor (struct Lexer) *)

Position(l, c) == [line |-> l, column |-> c]

\* The mutable part of a Lexer as a value: the operations below take one and
\* return the one they leave behind.  `calls` is the history of cursor moves.
Lexer(i, p, lp, cs) == [idx |-> i, pos |-> p, last_pos |-> lp, calls |-> cs]

\* chars.get(i)
Get(i) == IF i >= 0 /\ i < Len(chars) THEN chars[i + 1] ELSE None

get_position(L) == L.pos

get_current_char(L) == Get(L.idx)

peek_next_char(L) == Get(L.idx + 1)

\* Faulty variants of decrement_idx, for fault injection: one forgets
\* `self.idx -= 1`, the other forgets to restore the position.
decrement_idx_keeps_idx(L) ==
    [L EXCEPT !.pos = L.last_pos,
              !.calls = Append(L.calls, [op |-> "dec", at |-> L.idx])]

decrement_idx_keeps_pos(L) ==
    [L EXCEPT !.idx = L.idx - 1,
              !.calls = Append(L.calls, [op |-> "dec", at |-> L.idx])]

decrement_idx(L) ==
    [L EXCEPT !.pos = L.last_pos,
              !.idx = L.idx - 1,
              !.calls = Append(L.calls, [op |-> "dec", at |-> L.idx])]

\* Faulty variants of increment_idx, for fault injection: one counts a newline
\* as a column, the other forgets `self.last_pos = self.pos`.
increment_idx_ignores_newline(L) ==
    [L EXCEPT !.last_pos = L.pos,
              !.pos = Position(L.pos.line, L.pos.column + 1),
              !.idx = L.idx + 1,
              !.calls = Append(L.calls, [op |-> "inc", at |-> L.idx])]

increment_idx_stale_last_pos(L) ==
    [L EXCEPT !.pos = IF Get(L.idx) = "\n"
                      THEN Position(L.pos.line + 1, 1)
                      ELSE Position(L.pos.line, L.pos.column + 1),
              !.idx = L.idx + 1,
              !.calls = Append(L.calls, [op |-> "inc", at |-> L.idx])]

increment_idx(L) ==
    [L EXCEPT !.last_pos = L.pos,
              !.pos = IF Get(L.idx) = "\n"
                      THEN Position(L.pos.line + 1, 1)
                      ELSE Position(L.pos.line, L.pos.column + 1),
              !.idx = L.idx + 1,
              !.calls = Append(L.calls, [op |-> "inc", at |-> L.idx])]

\* The closures tokenize_code hands to collect_until and skip_until, by name
\* (a closure is passed as its name, and applied here).  "not_identifier" is
\* the closure of the faulty identifier arm only.
cond_holds(cond, ch) ==
    CASE cond = "not_whitespace" -> ~is_whitespace(ch)
      [] cond = "not_identifier_or_number" -> ~(is_identifier(ch) \/ is_number(ch))
      [] cond = "newline" -> ch = "\n"
      [] cond = "not_number_or_dot" -> ~is_number(ch) /\ ch # "."
      [] cond = "not_identifier" -> ~is_identifier(ch)

\* Faulty variant of collect_until: no retreat, the cursor is left on the
\* character that satisfies the condition.
collect_until_no_retreat(L, cond) ==
    LET RECURSIVE go(_, _)
        go(l, s) ==
            IF l.idx < Len(chars)
            THEN LET ch == chars[l.idx + 1]
                 IN  IF cond_holds(cond, ch)
                     THEN [lexer |-> l, s |-> s]
                     ELSE go(increment_idx(l), Append(s, ch))
            ELSE [lexer |-> l, s |-> s]
    IN  go(L, <<>>)

\* returns the lexer left behind and the collected text
collect_until(L, cond) ==
    LET RECURSIVE go(_, _)
        go(l, s) ==
            IF l.idx < Len(chars)
            THEN LET ch == chars[l.idx + 1]
                 IN  IF cond_holds(cond, ch)
                     THEN [lexer |-> decrement_idx(l), s |-> s]
                     ELSE go(increment_idx(l), Append(s, ch))
            ELSE [lexer |-> l, s |-> s]
    IN  go(L, <<>>)

\* returns the lexer left behind and the count
skip_until(L, cond) ==
    LET start == L.idx
        RECURSIVE go(_)
        go(l) ==
            IF l.idx < Len(chars)
            THEN IF cond_holds(cond, chars[l.idx + 1])
                 THEN decrement_idx(l)
                 ELSE go(increment_idx(l))
            ELSE l
        end == go(L)
    IN  [lexer |-> end, n |-> end.idx - start + 1]

-----------------------------------------------------------------------------
(* Tokens (types.rs).  Every token is a record of the same shape: `kind` is  *)
(* the variant of Token, `variant` the inner enum's variant (Keyword,        *)
(* BuiltinType, Number), `text` the String payload, `n` the usize payload.   *)

Tok(k) == [kind |-> k, variant |-> "", text |-> <<>>, n |-> 0]

Ident(s) == [Tok("Ident") EXCEPT !.text = s]

String(s) == [Tok("String") EXCEPT !.text = s]

Comment(s) == [Tok("Comment") EXCEPT !.text = s]

Whitespace(n) == [Tok("Whitespace") EXCEPT !.n = n]

Keyword(v) == [Tok("Keyword") EXCEPT !.variant = v]

BuiltinType(v) == [Tok("BuiltinType") EXCEPT !.variant = v]

\* Number(Int(v)) / Number(Float(v)): the value v is held as its canonical
\* decimal digits (an i64 near 2^63 does not fit a TLC integer)
Number(v, digits) == [Tok("Number") EXCEPT !.variant = v, !.text = digits]

EnrichedToken(start, end, token) == [start |-> start, end |-> end, token |-> token]

strip_token(t) == t.token

-----------------------------------------------------------------------------
(* str::parse::<i64>, str::parse::<f64> and str::trim, on the texts the lexer *)
(* hands them: a number text is a digit followed by digits and dots.          *)

DigitVal(ch) ==
    CASE ch = "0" -> 0 [] ch = "1" -> 1 [] ch = "2" -> 2 [] ch = "3" -> 3
      [] ch = "4" -> 4 [] ch = "5" -> 5 [] ch = "6" -> 6 [] ch = "7" -> 7
      [] ch = "8" -> 8 [] ch = "9" -> 9

\* i64::MAX = 2^63 - 1 in decimal
I64MaxDigits ==
    <<"9", "2", "2", "3", "3", "7", "2", "0", "3", "6", "8", "5", "4", "7", "7",
      "5", "8", "0", "7">>

RECURSIVE StripLeadingZeros(_)
StripLeadingZeros(s) ==
    IF Len(s) > 1 /\ Head(s) = "0" THEN StripLeadingZeros(Tail(s)) ELSE s

RECURSIVE StripTrailingZeros(_)
StripTrailingZeros(s) ==
    IF Len(s) > 0 /\ s[Len(s)] = "0"
    THEN StripTrailingZeros(SubSeq(s, 1, Len(s) - 1))
    ELSE s

\* a <= b for two digit texts of the same length
RECURSIVE DigitsLeq(_, _)
DigitsLeq(a, b) ==
    IF Len(a) = 0 THEN TRUE
    ELSE IF DigitVal(Head(a)) < DigitVal(Head(b)) THEN TRUE
    ELSE IF DigitVal(Head(a)) > DigitVal(Head(b)) THEN FALSE
    ELSE DigitsLeq(Tail(a), Tail(b))

DotCount(s) == Cardinality({ i \in 1..Len(s) : s[i] = "." })

\* Ok(n) of parse::<i64>: digits only, value at most i64::MAX
parse_i64_ok(s) ==
    /\ Len(s) > 0
    /\ \A i \in 1..Len(s) : s[i] \in Digits
    /\ LET c == StripLeadingZeros(s)
       IN  \/ Len(c) < Len(I64MaxDigits)
           \/ Len(c) = Len(I64MaxDigits) /\ DigitsLeq(c, I64MaxDigits)

parse_i64(s) == StripLeadingZeros(s)

\* Ok(x) of parse::<f64>: digits with at most one dot ("7." parses, "7.7.7"
\* and "7.." do not)
parse_f64_ok(s) ==
    /\ Len(s) > 0
    /\ \A i \in 1..Len(s) : s[i] \in Digits \cup { "." }
    /\ \E i \in 1..Len(s) : s[i] \in Digits
    /\ DotCount(s) <= 1

\* the value as integer part, dot, fraction without trailing zeros (the
\* rounding of f64 is not modelled: distinct decimals stay distinct)
parse_f64(s) ==
    LET dot == IF DotCount(s) = 0 THEN Len(s) + 1
               ELSE CHOOSE i \in 1..Len(s) : s[i] = "."
        int == SubSeq(s, 1, dot - 1)
        frac == SubSeq(s, dot + 1, Len(s))
    IN  StripLeadingZeros(IF int = <<>> THEN <<"0">> ELSE int)
            \o <<".">> \o StripTrailingZeros(frac)

RECURSIVE trim_start(_)
trim_start(s) ==
    IF Len(s) > 0 /\ is_whitespace(Head(s)) THEN trim_start(Tail(s)) ELSE s

RECURSIVE trim_end(_)
trim_end(s) ==
    IF Len(s) > 0 /\ is_whitespace(s[Len(s)])
    THEN trim_end(SubSeq(s, 1, Len(s) - 1))
    ELSE s

trim(s) == trim_end(trim_start(s))

-----------------------------------------------------------------------------
(* The arms of `match ch` in tokenize_code.  Each takes the lexer at the     *)
(* start of the iteration and returns the lexer it leaves, the token, and    *)
(* the panic message (<<>> when the arm does not panic).                     *)

Arm(L, token) == [lexer |-> L, token |-> token, panic |-> <<>>]

Panic(L, msg) == [lexer |-> L, token |-> Tok("none"), panic |-> msg]

\* Faulty variant of whitespace_arm: the count is `idx - start`.
whitespace_arm_idx_diff(L) ==
    LET r == skip_until(L, "not_whitespace")
    IN  Arm(r.lexer, Whitespace(r.n - 1))

whitespace_arm(L) ==
    LET r == skip_until(L, "not_whitespace")
    IN  Arm(r.lexer, Whitespace(r.n))

\* `match ident.as_str()`
classify_ident(ident) ==
    CASE ident = <<"i", "n", "t">> -> BuiltinType("Int")
      [] ident = <<"f", "l", "o", "a", "t">> -> BuiltinType("Float")
      [] ident = <<"b", "o", "o", "l", "e", "a", "n">> -> BuiltinType("Boolean")
      [] ident = <<"s", "t", "r", "i", "n", "g">> -> BuiltinType("String")
      [] ident = <<"f", "n">> -> Keyword("Function")
      [] ident = <<"i", "f">> -> Keyword("If")
      [] ident = <<"e", "l", "s", "e">> -> Keyword("Else")
      [] ident = <<"e", "n", "d">> -> Keyword("End")
      [] ident = <<"r", "e", "t", "u", "r", "n">> -> Keyword("Return")
      [] ident = <<"m", "u", "t">> -> Keyword("Mutable")
      [] ident = <<"f", "o", "r">> -> Keyword("For")
      [] ident = <<"i", "n">> -> Keyword("In")
      [] OTHER -> Ident(ident)

\* Faulty variant of identifier_arm: digits end the run.
identifier_arm_letters_only(L) ==
    LET r == collect_until(L, "not_identifier")
    IN  Arm(r.lexer, classify_ident(r.s))

identifier_arm(L) ==
    LET r == collect_until(L, "not_identifier_or_number")
    IN  Arm(r.lexer, classify_ident(r.s))

\* Faulty variants of string_arm: one has no '\\' arm, so a backslash is an
\* ordinary character and the first '"' ends the literal; the other pushes
\* the character after a backslash unguarded and aborts when there is none.
string_arm_no_escape(L) ==
    LET RECURSIVE go(_, _)
        go(l, s) ==
            LET ch == get_current_char(l)
            IN  IF ch = None \/ ch = "\"" THEN [lexer |-> l, s |-> s]
                ELSE go(increment_idx(l), Append(s, ch))
        r == go(increment_idx(L), <<>>)
    IN  Arm(r.lexer, String(r.s))

string_arm_unwrap(L) ==
    LET RECURSIVE go(_, _)
        go(l, s) ==
            LET ch == get_current_char(l)
            IN  IF ch = None THEN [lexer |-> l, s |-> s, ok |-> TRUE]
                ELSE IF ch = "\\"
                THEN LET l1 == increment_idx(l)
                         c1 == get_current_char(l1)
                     IN  IF c1 = None THEN [lexer |-> l1, s |-> s, ok |-> FALSE]
                         ELSE go(increment_idx(l1), Append(s, c1))
                ELSE IF ch = "\"" THEN [lexer |-> l, s |-> s, ok |-> TRUE]
                ELSE go(increment_idx(l), Append(s, ch))
        r == go(increment_idx(L), <<>>)
    IN  IF r.ok THEN Arm(r.lexer, String(r.s))
        ELSE Panic(r.lexer, <<"index out of bounds">>)

\* the body of the '"' arm: the opening quote, then the while loop
string_arm(L) ==
    LET RECURSIVE go(_, _)
        go(l, s) ==
            LET ch == get_current_char(l)
            IN  IF ch = None THEN [lexer |-> l, s |-> s]
                ELSE IF ch = "\\"
                THEN LET l1 == increment_idx(l)
                         c1 == get_current_char(l1)
                         s1 == IF c1 # None THEN Append(s, c1) ELSE s
                     IN  go(increment_idx(l1), s1)
                ELSE IF ch = "\"" THEN [lexer |-> l, s |-> s]
                ELSE go(increment_idx(l), Append(s, ch))
        r == go(increment_idx(L), <<>>)
    IN  Arm(r.lexer, String(r.s))

\* the guard of the comment arm: peek_next_char().unwrap_or('/') == '/'
comment_guard(L) ==
    LET nx == peek_next_char(L)
    IN  (IF nx = None THEN "/" ELSE nx) = "/"

comment_arm(L) ==
    LET r == collect_until(increment_idx(increment_idx(L)), "newline")
    IN  Arm(r.lexer, Comment(trim(r.s)))

number_arm(L) ==
    LET r == collect_until(L, "not_number_or_dot")
    IN  IF parse_i64_ok(r.s) THEN Arm(r.lexer, Number("Int", parse_i64(r.s)))
        ELSE IF parse_f64_ok(r.s) THEN Arm(r.lexer, Number("Float", parse_f64(r.s)))
        ELSE Panic(r.lexer, <<"how? not a i64 or f64", r.s>>)

\* `match (ch, next_ch)`: the token of a pair, Tok("none") for the `_` arm
double_token(ch, next_ch) ==
    CASE ch = "[" /\ next_ch = "]" -> BuiltinType("Array")
      [] ch = ":" /\ next_ch = "=" -> Tok("Assign")
      [] ch = "=" /\ next_ch = "=" -> Tok("Eq")
      [] ch = "!" /\ next_ch = "=" -> Tok("NotEq")
      [] ch = ">" /\ next_ch = "=" -> Tok("GreaterThanOrEq")
      [] ch = "<" /\ next_ch = "=" -> Tok("LessThanOrEq")
      [] ch = "-" /\ next_ch = ">" -> Tok("ReturnType")
      [] ch = "+" /\ next_ch = "=" -> Tok("RelationalPlus")
      [] ch = "-" /\ next_ch = "=" -> Tok("RelationalMinus")
      [] ch = "*" /\ next_ch = "=" -> Tok("RelationalMul")
      [] ch = "/" /\ next_ch = "=" -> Tok("RelationalDiv")
      [] OTHER -> Tok("none")

\* the second `match ch`: the token of one punctuation character
single_token(ch) ==
    CASE ch = "!" -> Tok("Bang")
      [] ch = "#" -> Tok("Shabang")
      [] ch = "$" -> Tok("Dollar")
      [] ch = "%" -> Tok("Percent")
      [] ch = "&" -> Tok("Ampersand")
      [] ch = "(" -> Tok("OpenParen")
      [] ch = ")" -> Tok("CloseParen")
      [] ch = "*" -> Tok("Asterisk")
      [] ch = "+" -> Tok("Plus")
      [] ch = "-" -> Tok("Minus")
      [] ch = "," -> Tok("Comma")
      [] ch = "." -> Tok("Period")
      [] ch = "/" -> Tok("Slash")
      [] ch = ":" -> Tok("Colon")
      [] ch = ";" -> Tok("Semicolon")
      [] ch = "<" -> Tok("LessThan")
      [] ch = "=" -> Tok("Equals")
      [] ch = ">" -> Tok("GreaterThan")
      [] ch = "?" -> Tok("QuestionMark")
      [] ch = "@" -> Tok("AtSign")
      [] ch = "[" -> Tok("OpenSquareBracket")
      [] ch = "\\" -> Tok("Backslash")
      [] ch = "]" -> Tok("CloseSquareBracket")
      [] ch = "^" -> Tok("Caret")
      [] ch = "{" -> Tok("OpenCurlyBrace")
      [] ch = "|" -> Tok("VerticalBar")
      [] ch = "}" -> Tok("CloseCurlyBrace")
      [] OTHER -> Tok("none")

\* Faulty variant of double_matched: the retreat is made whether or not the
\* lookahead advanced.
double_matched_always_retreats(L) ==
    LET ch == get_current_char(L)
        next_ch == peek_next_char(L)
    IN  IF next_ch # None /\ is_punctuation(next_ch)
        THEN LET l1 == increment_idx(L)
                 t == double_token(ch, next_ch)
             IN  IF t.kind # "none" THEN [lexer |-> l1, token |-> t]
                 ELSE [lexer |-> decrement_idx(l1), token |-> t]
        ELSE [lexer |-> decrement_idx(L), token |-> Tok("none")]

\* Faulty variants of double_matched: one does not advance onto the second
\* character of a pair, the other does not retreat after a rejected pair.
double_matched_no_advance(L) ==
    LET ch == get_current_char(L)
        next_ch == peek_next_char(L)
    IN  IF next_ch # None /\ is_punctuation(next_ch)
        THEN LET l1 == increment_idx(L)
                 t == double_token(ch, next_ch)
             IN  IF t.kind # "none" THEN [lexer |-> L, token |-> t]
                 ELSE [lexer |-> decrement_idx(l1), token |-> t]
        ELSE [lexer |-> L, token |-> Tok("none")]

double_matched_no_retreat(L) ==
    LET ch == get_current_char(L)
        next_ch == peek_next_char(L)
    IN  IF next_ch # None /\ is_punctuation(next_ch)
        THEN LET l1 == increment_idx(L)
                 t == double_token(ch, next_ch)
             IN  [lexer |-> l1, token |-> t]
        ELSE [lexer |-> L, token |-> Tok("none")]

\* the lookahead: the lexer left behind and Some(token) / None as Tok("none")
double_matched(L) ==
    LET ch == get_current_char(L)
        next_ch == peek_next_char(L)
    IN  IF next_ch # None /\ is_punctuation(next_ch)
        THEN LET l1 == increment_idx(L)
                 t == double_token(ch, next_ch)
             IN  IF t.kind # "none" THEN [lexer |-> l1, token |-> t]
                 ELSE [lexer |-> decrement_idx(l1), token |-> t]
        ELSE [lexer |-> L, token |-> Tok("none")]

\* Faulty variant of punctuation_arm: no lookahead, every punctuation
\* character is classified alone.
punctuation_arm_no_lookahead(L) ==
    LET ch == get_current_char(L)
    IN  IF single_token(ch).kind # "none" THEN Arm(L, single_token(ch))
        ELSE Panic(L, <<"punctuation", ch>>)

punctuation_arm(L) ==
    LET ch == get_current_char(L)
        d == double_matched(L)
    IN  IF d.token.kind # "none" THEN Arm(d.lexer, d.token)
        ELSE IF single_token(ch).kind # "none" THEN Arm(d.lexer, single_token(ch))
        ELSE Panic(d.lexer, <<"punctuation", ch>>)

\* Faulty variant of unexpected_arm: the character is turned into a token and
\* the scan goes on.
unexpected_arm_skip(L) == Arm(L, Tok("Unknown"))

\* Faulty variant of unexpected_arm: the message names the character after
\* the offending one.
unexpected_arm_next_char(L) == Panic(L, <<"unexpected char", peek_next_char(L)>>)

unexpected_arm(L) == Panic(L, <<"unexpected char", get_current_char(L)>>)

-----------------------------------------------------------------------------
(* tokenize_code as a state machine: one action per arm of the match, each   *)
(* a whole iteration of the while loop, and one for the code after the loop. *)

\* how a call ended: returned (tokens) or aborted (panic_msg)
Outcome(p, ts, msg) == [pc |-> p, tokens |-> ts, panic_msg |-> msg]

NoOutcome == Outcome("none", <<>>, <<>>)

\* Lexer::new and `let mut tokens = vec![]`
Init ==
    /\ chars \in Inputs
    /\ idx = 0
    /\ pos = Position(1, 1)
    /\ last_pos = Position(1, 1)
    /\ tokens = <<>>
    /\ pc = "loop"
    /\ panic_msg = <<>>
    /\ emitted = <<>>
    /\ spans = <<>>
    /\ calls = <<>>
    /\ expect = Tok("none")
    /\ other = NoOutcome

\* the lexer at the top of the loop
Cur == Lexer(idx, pos, last_pos, calls)

\* `while let Some(ch) = lexer.get_current_char()`
InLoop == pc = "loop" /\ get_current_char(Cur) # None

\* the cursor fields after an arm
SetLexer(L) ==
    /\ idx' = L.idx
    /\ pos' = L.pos
    /\ last_pos' = L.last_pos
    /\ calls' = L.calls

\* Faulty variant of Iteration: the end of the token is read after the lexer
\* is advanced.
Iteration_end_after_advance(r) ==
    IF r.panic # <<>>
    THEN /\ pc' = "panic"
         /\ panic_msg' = r.panic
         /\ SetLexer(r.lexer)
         /\ UNCHANGED <<chars, tokens, emitted, spans, expect, other>>
    ELSE LET start_pos == get_position(Cur)
             l2 == increment_idx(r.lexer)
             t == EnrichedToken(start_pos, get_position(l2), r.token)
         IN  /\ tokens' = Append(tokens, t)
             /\ emitted' = Append(emitted, t)
             /\ spans' = Append(spans, [from |-> idx, last |-> r.lexer.idx, to |-> l2.idx])
             /\ SetLexer(l2)
             /\ UNCHANGED <<chars, pc, panic_msg, expect, other>>

\* Faulty variant of Iteration: the lexer is not advanced after the push.
Iteration_without_advance(r) ==
    IF r.panic # <<>>
    THEN /\ pc' = "panic"
         /\ panic_msg' = r.panic
         /\ SetLexer(r.lexer)
         /\ UNCHANGED <<chars, tokens, emitted, spans, expect, other>>
    ELSE LET start_pos == get_position(Cur)
             t == EnrichedToken(start_pos, get_position(r.lexer), r.token)
             l2 == r.lexer
         IN  /\ tokens' = Append(tokens, t)
             /\ emitted' = Append(emitted, t)
             /\ spans' = Append(spans, [from |-> idx, last |-> r.lexer.idx, to |-> l2.idx])
             /\ SetLexer(l2)
             /\ UNCHANGED <<chars, pc, panic_msg, expect, other>>

\* The rest of an iteration once the arm has produced r: a panic unwinds out
\* of tokenize_code; otherwise the token is pushed with start_pos (the position
\* at the top of the loop) and the position after the arm, and the lexer is
\* advanced once more.
Iteration(r) ==
    IF r.panic # <<>>
    THEN /\ pc' = "panic"
         /\ panic_msg' = r.panic
         /\ SetLexer(r.lexer)
         /\ UNCHANGED <<chars, tokens, emitted, spans, expect, other>>
    ELSE LET start_pos == get_position(Cur)
             t == EnrichedToken(start_pos, get_position(r.lexer), r.token)
             l2 == increment_idx(r.lexer)
         IN  /\ tokens' = Append(tokens, t)
             /\ emitted' = Append(emitted, t)
             /\ spans' = Append(spans, [from |-> idx, last |-> r.lexer.idx, to |-> l2.idx])
             /\ SetLexer(l2)
             /\ UNCHANGED <<chars, pc, panic_msg, expect, other>>

WhitespaceStep ==
    /\ InLoop
    /\ is_whitespace(get_current_char(Cur))
    /\ Iteration(whitespace_arm(Cur))

IdentifierStep ==
    /\ InLoop
    /\ ~is_whitespace(get_current_char(Cur))
    /\ is_identifier(get_current_char(Cur))
    /\ Iteration(identifier_arm(Cur))

StringStep ==
    /\ InLoop
    /\ ~is_whitespace(get_current_char(Cur))
    /\ ~is_identifier(get_current_char(Cur))
    /\ get_current_char(Cur) = "\""
    /\ Iteration(string_arm(Cur))

CommentStep ==
    /\ InLoop
    /\ ~is_whitespace(get_current_char(Cur))
    /\ ~is_identifier(get_current_char(Cur))
    /\ get_current_char(Cur) = "/"
    /\ comment_guard(Cur)
    /\ Iteration(comment_arm(Cur))

\* the arms above did not take ch
NotTaken ==
    LET ch == get_current_char(Cur)
    IN  /\ ~is_whitespace(ch)
        /\ ~is_identifier(ch)
        /\ ch # "\""
        /\ ~(ch = "/" /\ comment_guard(Cur))

NumberStep ==
    /\ InLoop
    /\ NotTaken
    /\ is_number(get_current_char(Cur))
    /\ Iteration(number_arm(Cur))

PunctuationStep ==
    /\ InLoop
    /\ NotTaken
    /\ ~is_number(get_current_char(Cur))
    /\ is_punctuation(get_current_char(Cur))
    /\ Iteration(punctuation_arm(Cur))

UnexpectedStep ==
    /\ InLoop
    /\ NotTaken
    /\ ~is_number(get_current_char(Cur))
    /\ ~is_punctuation(get_current_char(Cur))
    /\ Iteration(unexpected_arm(Cur))

\* Faulty variant of drop_trailing_whitespace: nothing is popped.
drop_nothing(ts) == ts

\* `tokens.pop()` when the last token is a Whitespace
drop_trailing_whitespace(ts) ==
    IF Len(ts) > 0 /\ strip_token(ts[Len(ts)]).kind = "Whitespace"
    THEN SubSeq(ts, 1, Len(ts) - 1)
    ELSE ts

\* the loop ends: the code after it runs and `tokens` is returned
Return ==
    /\ pc = "loop"
    /\ get_current_char(Cur) = None
    /\ tokens' = drop_trailing_whitespace(tokens)
    /\ pc' = "done"
    /\ UNCHANGED <<chars, idx, pos, last_pos, panic_msg, emitted, spans, calls,
                   expect, other>>

Next ==
    \/ WhitespaceStep
    \/ IdentifierStep
    \/ StringStep
    \/ CommentStep
    \/ NumberStep
    \/ PunctuationStep
    \/ UnexpectedStep
    \/ Return

Spec == Init /\ [][Next]_vars

-----------------------------------------------------------------------------
(* Notions the properties are stated with.  They are defined on the input    *)
(* alone, or on the histories, never through the cursor.                     *)

Min(a, b) == IF a < b THEN a ELSE b

\* the advance rule for one character, and for a text
Advance(p, ch) ==
    IF ch = "\n" THEN Position(p.line + 1, 1) ELSE Position(p.line, p.column + 1)

RECURSIVE AdvanceOver(_, _)
AdvanceOver(p, s) ==
    IF s = <<>> THEN p ELSE AdvanceOver(Advance(p, Head(s)), Tail(s))

\* the source position of the character at index i: one more than the
\* newlines before it, one more than the characters since the last of them
TruePos(i) ==
    LET nls == { j \in 1..i : chars[j] = "\n" }
        lastNl == IF nls = {} THEN 0 ELSE CHOOSE j \in nls : \A m \in nls : m <= j
    IN  Position(1 + Cardinality(nls), 1 + (i - lastNl))

PosLeq(a, b) == a.line < b.line \/ (a.line = b.line /\ a.column <= b.column)

\* the characters the k-th iteration consumed: from its first index to the
\* index the cursor was on when the token was pushed, inside the input
LastIdx(k) == Min(spans[k].last, Len(chars) - 1)

SourceText(k) == SubSeq(chars, spans[k].from + 1, LastIdx(k) + 1)

\* the characters a token of this kind is made of
Fits(t, txt) ==
    CASE t.kind = "Whitespace" -> \A i \in 1..Len(txt) : is_whitespace(txt[i])
      [] t.kind = "Ident" -> t.text = txt
      [] t.kind = "Keyword" \/ (t.kind = "BuiltinType" /\ t.variant # "Array") ->
            \A i \in 1..Len(txt) : is_identifier(txt[i]) \/ is_number(txt[i])
      [] t.kind = "Number" -> \A i \in 1..Len(txt) : txt[i] \in Digits \cup { "." }
      [] t.kind = "String" -> txt[1] = "\""
      [] t.kind = "Comment" -> txt[1] = "/" /\ \A i \in 1..Len(txt) : txt[i] # "\n"
      [] OTHER -> Len(txt) <= 2 /\ \A i \in 1..Len(txt) : is_punctuation(txt[i])

\* C1: the iterations consume contiguous, disjoint index ranges from left to
\* right: the first starts at index 0, each next one at the index after the
\* last character the previous one consumed, every range is non-empty and
\* holds only characters of its token; when tokenize_code returns, the last
\* range ends at the last character, so the ranges partition the input.
C1_RangesPartitionInput ==
    /\ \A k \in 1..Len(spans) :
          /\ spans[k].from = (IF k = 1 THEN 0 ELSE spans[k - 1].last + 1)
          /\ spans[k].from <= LastIdx(k)
          /\ Fits(emitted[k].token, SourceText(k))
    /\ pc = "done" =>
          IF Len(chars) = 0 THEN spans = <<>>
          ELSE spans # <<>> /\ spans[Len(spans)].last >= Len(chars) - 1

C1_Witness ==
    /\ pc = "done"
    /\ Len(emitted) = 3
    /\ Len(tokens) = 2
    /\ emitted[1].token.kind = "Ident"

\* C2: the start of every returned token is the true source position of its
\* first character.
C2_StartIsTruePosition ==
    pc = "done" => \A k \in 1..Len(tokens) : tokens[k].start = TruePos(spans[k].from)

C2_Witness ==
    /\ pc = "done"
    /\ \E k \in 2..Len(tokens) : tokens[k].start.line = 2 /\ tokens[k].start.column > 1

\* C3 as stated: the end of every returned token is its start advanced once
\* for every character of its source text (the position after its last
\* character).
C3_EndIsAfterLastChar ==
    pc = "done" =>
        \A k \in 1..Len(tokens) :
            tokens[k].end = AdvanceOver(tokens[k].start, SourceText(k))

\* C3 amended: the end of every returned token whose scan stopped on a
\* character of the input is the position of its last consumed character: its
\* start advanced once for every character of its source text but the last.
C3_EndIsAtLastChar ==
    pc = "done" =>
        \A k \in 1..Len(tokens) :
            spans[k].last < Len(chars) =>
                LET txt == SourceText(k)
                IN  tokens[k].end =
                        AdvanceOver(tokens[k].start, SubSeq(txt, 1, Len(txt) - 1))

C3_Witness ==
    /\ pc = "done"
    /\ \E k \in 1..Len(tokens) :
          /\ spans[k].last < Len(chars)
          /\ tokens[k].end.line > tokens[k].start.line

\* C4: the start positions of the returned tokens never decrease from one
\* token to the next, in (line, column) order.
C4_StartsNonDecreasing ==
    pc = "done" =>
        \A k \in 1..(Len(tokens) - 1) : PosLeq(tokens[k].start, tokens[k + 1].start)

C4_Witness ==
    /\ pc = "done"
    /\ Len(tokens) = 3
    /\ tokens[2].start.line = 2
    /\ tokens[3].start.line = 2

\* index i lies in a string literal or a comment
InLiteral(i) ==
    \E k \in 1..Len(spans) :
        /\ emitted[k].token.kind \in { "String", "Comment" }
        /\ spans[k].from <= i
        /\ i <= spans[k].last

\* the places where a is directly followed by b outside literals and comments
Occurrences(a, b) ==
    { i \in 0..(Len(chars) - 2) : chars[i + 1] = a /\ chars[i + 2] = b /\ ~InLiteral(i) }

\* one token, t, was emitted for exactly the two characters at i and i + 1
OneTokenAt(i, t) ==
    \E k \in 1..Len(spans) :
        spans[k].from = i /\ spans[k].last = i + 1 /\ emitted[k].token = t

NeverAdjacent(k1, k2) ==
    \A k \in 1..(Len(emitted) - 1) :
        ~(emitted[k].token.kind = k1 /\ emitted[k + 1].token.kind = k2)

\* C5: no Colon token is emitted for a ':' that '=' follows and no
\* OpenSquareBracket for a '[' that ']' follows; Colon is never followed by
\* Equals nor OpenSquareBracket by CloseSquareBracket; and when tokenize_code
\* returns, every ":=" outside literals and comments has given exactly one
\* Assign token and every "[]" exactly one BuiltinType(Array) token.
C5_GreedyPairs ==
    /\ \A k \in 1..Len(emitted) :
          /\ emitted[k].token.kind = "Colon" => Get(spans[k].from + 1) # "="
          /\ emitted[k].token.kind = "OpenSquareBracket" => Get(spans[k].from + 1) # "]"
    /\ NeverAdjacent("Colon", "Equals")
    /\ NeverAdjacent("OpenSquareBracket", "CloseSquareBracket")
    /\ pc = "done" =>
          /\ \A i \in Occurrences(":", "=") : OneTokenAt(i, Tok("Assign"))
          /\ \A i \in Occurrences("[", "]") : OneTokenAt(i, BuiltinType("Array"))

C5_Witness ==
    /\ pc = "done"
    /\ Len(tokens) = 2
    /\ tokens[1].token.kind \in { "Colon", "OpenSquareBracket", "Equals" }
    /\ tokens[2].token \in { Tok("Assign"), BuiltinType("Array") }

\* the index after the maximal run of letters, underscores and digits at i
RECURSIVE RunEnd(_)
RunEnd(i) ==
    IF i < Len(chars) /\ (is_identifier(chars[i + 1]) \/ is_number(chars[i + 1]))
    THEN RunEnd(i + 1)
    ELSE i

ReservedSpellings ==
    { <<"f", "n">>, <<"i", "f">>, <<"e", "l", "s", "e">>, <<"e", "n", "d">>,
      <<"r", "e", "t", "u", "r", "n">>, <<"m", "u", "t">>, <<"f", "o", "r">>,
      <<"i", "n">>, <<"i", "n", "t">>, <<"f", "l", "o", "a", "t">>,
      <<"b", "o", "o", "l", "e", "a", "n">>, <<"s", "t", "r", "i", "n", "g">> }

\* C6: an iteration that dispatches on a letter or an underscore consumes the
\* maximal run of letters, underscores and digits; its token is a Keyword or a
\* BuiltinType exactly when the run is a reserved spelling, and otherwise the
\* Ident carrying the run; `end` gives Keyword(End).
C6_KeywordOrIdent ==
    \A k \in 1..Len(emitted) :
        is_identifier(Get(spans[k].from)) =>
            LET e == RunEnd(spans[k].from)
                run == SubSeq(chars, spans[k].from + 1, e)
                t == emitted[k].token
            IN  /\ LastIdx(k) = e - 1
                /\ t.kind \in { "Keyword", "BuiltinType" } <=> run \in ReservedSpellings
                /\ run \notin ReservedSpellings => t = Ident(run)
                /\ run = <<"e", "n", "d">> => t = Keyword("End")

C6_Witness ==
    /\ Len(emitted) = 2
    /\ emitted[1].token = Ident(<<"e", "n", "d", "p", "o", "i", "n", "t">>)
    /\ spans[1].last < Len(chars)

\* C7: the returned sequence never ends with a Whitespace token; it is the
\* emitted sequence without its last token when that one is a Whitespace, and
\* the whole emitted sequence otherwise.
C7_NoTrailingWhitespace ==
    pc = "done" =>
        /\ tokens # <<>> => tokens[Len(tokens)].token.kind # "Whitespace"
        /\ IF emitted # <<>> /\ emitted[Len(emitted)].token.kind = "Whitespace"
           THEN tokens = SubSeq(emitted, 1, Len(emitted) - 1)
           ELSE tokens = emitted

C7_Witness ==
    /\ pc = "done"
    /\ Len(emitted) = 3
    /\ Len(tokens) = 2
    /\ tokens[1].token.kind = "Whitespace"

\* C8: every returned Whitespace(n) covers a maximal run of whitespace
\* characters, and n is the number of characters of the run.
C8_WhitespaceCountsRun ==
    pc = "done" =>
        \A k \in 1..Len(tokens) :
            tokens[k].token.kind = "Whitespace" =>
                LET f == spans[k].from
                    n == tokens[k].token.n
                IN  /\ n >= 1
                    /\ \A i \in f..(f + n - 1) : is_whitespace(Get(i))
                    /\ ~is_whitespace(Get(f + n))
                    /\ f = 0 \/ ~is_whitespace(Get(f - 1))
                    /\ spans[k].last = f + n - 1

C8_Witness ==
    /\ pc = "done"
    /\ \E k \in 1..Len(tokens) :
          /\ tokens[k].token = Whitespace(2)
          /\ Get(spans[k].from) = "\n"

\* the index of the first unescaped '"' at or after i, Len(chars) if none
RECURSIVE ClosingQuote(_)
ClosingQuote(i) ==
    IF i >= Len(chars) THEN Len(chars)
    ELSE IF chars[i + 1] = "\\" THEN ClosingQuote(i + 2)
    ELSE IF chars[i + 1] = "\"" THEN i
    ELSE ClosingQuote(i + 1)

\* a text with every escaping backslash removed and the character after it kept
RECURSIVE Unescape(_)
Unescape(s) ==
    IF s = <<>> THEN <<>>
    ELSE IF Head(s) = "\\"
    THEN IF Len(s) = 1 THEN <<>> ELSE <<s[2]>> \o Unescape(SubSeq(s, 3, Len(s)))
    ELSE <<Head(s)>> \o Unescape(Tail(s))

\* C9: a String token whose literal has a closing quote holds the characters
\* between the opening quote and the first unescaped '"', unescaped; the
\* closing quote is the last character the token consumes and is not part of
\* the text.
C9_StringText ==
    \A k \in 1..Len(emitted) :
        LET f == spans[k].from
            c == ClosingQuote(f + 1)
        IN  (Get(f) = "\"" /\ c < Len(chars)) =>
                /\ emitted[k].token = String(Unescape(SubSeq(chars, f + 2, c)))
                /\ spans[k].last = c

C9_Witness ==
    \E k \in 1..Len(emitted) :
        /\ emitted[k].token = String(<<"\"">>)
        /\ spans[k].last = Len(chars) - 1

\* the loop is about to dispatch on a '"' whose literal has no closing quote
UnterminatedAhead ==
    /\ pc = "loop"
    /\ Get(idx) = "\""
    /\ ClosingQuote(idx + 1) >= Len(chars)

\* C10: dispatching on a '"' with no unescaped closing quote before the end of
\* the input raises no error: the iteration pushes a String token holding the
\* text up to the end of the input and leaves the cursor past the end, so the
\* loop ends; and that token is the last one returned.
C10_UnterminatedString ==
    /\ [][UnterminatedAhead =>
            /\ pc' = "loop"
            /\ Len(emitted') = Len(emitted) + 1
            /\ emitted'[Len(emitted')].token =
                   String(Unescape(SubSeq(chars, idx + 2, Len(chars))))
            /\ idx' >= Len(chars)]_vars
    /\ [](pc = "done" =>
            \A k \in 1..Len(emitted) :
                (Get(spans[k].from) = "\"" /\ ClosingQuote(spans[k].from + 1) >= Len(chars))
                    => k = Len(tokens) /\ tokens[k] = emitted[k])

C10_Witness ==
    /\ pc = "done"
    /\ Len(chars) = 3
    /\ chars[3] = "\\"
    /\ Len(tokens) = 1
    /\ tokens[1].token = String(<<"t">>)

\* the index of the first newline at or after i, Len(chars) if none
RECURSIVE LineEnd(_)
LineEnd(i) ==
    IF i >= Len(chars) THEN Len(chars)
    ELSE IF chars[i + 1] = "\n" THEN i
    ELSE LineEnd(i + 1)

\* C11: a Comment token consumes exactly two slashes and the characters after
\* them up to, not including, the next newline or the end of the input; its
\* text is those characters trimmed; the newline is not consumed by it, so the
\* next iteration starts on the newline.
C11_CommentExtent ==
    \A k \in 1..Len(emitted) :
        emitted[k].token.kind = "Comment" =>
            LET f == spans[k].from
                e == LineEnd(f + 2)
            IN  /\ Get(f) = "/"
                /\ Get(f + 1) = "/"
                /\ LastIdx(k) = e - 1
                /\ emitted[k].token.text = trim(SubSeq(chars, f + 3, e))
                /\ k < Len(emitted) => spans[k + 1].from = e /\ Get(e) = "\n"

\* the same, for the Comment tokens that start with two slashes: what is left
\* of C11 when the lone '/' at the end of the input is set aside
C11_DoubleSlashCommentExtent ==
    \A k \in 1..Len(emitted) :
        (emitted[k].token.kind = "Comment" /\ Get(spans[k].from + 1) = "/") =>
            LET f == spans[k].from
                e == LineEnd(f + 2)
            IN  /\ LastIdx(k) = e - 1
                /\ emitted[k].token.text = trim(SubSeq(chars, f + 3, e))
                /\ k < Len(emitted) => spans[k + 1].from = e /\ Get(e) = "\n"

\* C12: an iteration that dispatches on '/' emits a Comment only if the next
\* character exists and is '/'; otherwise the '/' is a punctuation token:
\* RelationalDiv when '=' follows, Slash in every other case, the end of the
\* input included.
C12_CommentNeedsSecondSlash ==
    \A k \in 1..Len(emitted) :
        Get(spans[k].from) = "/" =>
            LET d == Get(spans[k].from + 1)
                t == emitted[k].token
            IN  /\ t.kind = "Comment" => d = "/"
                /\ d # "/" => t = (IF d = "=" THEN Tok("RelationalDiv") ELSE Tok("Slash"))

\* the index after the maximal run of digits and dots at i
RECURSIVE NumberRunEnd(_)
NumberRunEnd(i) ==
    IF i < Len(chars) /\ (chars[i + 1] \in Digits \/ chars[i + 1] = ".")
    THEN NumberRunEnd(i + 1)
    ELSE i

\* a digit text without a dot whose decimal value is at most 2^63 - 1
FitsInt64(run) ==
    /\ \A i \in 1..Len(run) : run[i] # "."
    /\ LET c == StripLeadingZeros(run)
       IN  \/ Len(c) < Len(I64MaxDigits)
           \/ Len(c) = Len(I64MaxDigits) /\ DigitsLeq(c, I64MaxDigits)

\* the loop is about to dispatch on a digit
DigitAhead == pc = "loop" /\ is_number(Get(idx))

\* the iteration pushed a Number for the maximal run of digits and dots at
\* the cursor: Int with the run's value when the run fits, Float otherwise
NumberPushed ==
    LET run == SubSeq(chars, idx + 1, NumberRunEnd(idx))
        t == emitted'[Len(emitted')].token
    IN  /\ pc' = "loop"
        /\ Len(emitted') = Len(emitted) + 1
        /\ t.kind = "Number"
        /\ t.variant = (IF FitsInt64(run) THEN "Int" ELSE "Float")
        /\ FitsInt64(run) => t.text = StripLeadingZeros(run)

\* C13: an iteration that dispatches on a digit emits the maximal run of
\* digits and dots as Number(Int(v)) exactly when the run has no dot and its
\* value fits a signed 64-bit integer, and as Number(Float) otherwise.
C13_IntOrFloat == [][DigitAhead => NumberPushed]_vars

\* the same for the runs with at most one dot: what is left of C13 when the
\* runs the number arm aborts on are set aside
C13_IntOrFloatUpToOneDot ==
    [][(DigitAhead /\ DotCount(SubSeq(chars, idx + 1, NumberRunEnd(idx))) <= 1)
          => NumberPushed]_vars

\* C14: the branch of the number arm for a run that parses neither as an
\* integer nor as a float is never reached: tokenize_code never aborts there.
C14_NumberArmNeverAborts ==
    ~(pc = "panic" /\ panic_msg[1] = "how? not a i64 or f64")

\* the loop is about to dispatch on a character no arm classifies
UnclassifiableAhead ==
    /\ pc = "loop"
    /\ idx < Len(chars)
    /\ LET ch == Get(idx)
       IN  /\ ch \notin {" ", "\n"}
           /\ ch \notin Letters \cup {"_"}
           /\ ch # "\""
           /\ ch \notin Digits
           /\ ~is_punctuation(ch)

\* C15: dispatching on a character that is not whitespace, letter,
\* underscore, quote, digit or punctuation aborts tokenize_code at that
\* character: the cursor stays on it, no token is pushed for it, and after the
\* abort nothing more happens: no token sequence is returned, the scan does
\* not go on.
C15_UnclassifiableAborts ==
    [][/\ UnclassifiableAhead =>
              /\ pc' = "panic"
              /\ panic_msg'[1] = "unexpected char"
              /\ idx' = idx
              /\ emitted' = emitted
       /\ pc # "panic"]_vars

C15_Witness ==
    /\ pc = "panic"
    /\ panic_msg[1] = "unexpected char"
    /\ Len(emitted) >= 1
    /\ idx + 1 < Len(chars)

\* the abort on an unclassifiable character has happened
UnexpectedAbort == pc = "panic" /\ panic_msg[1] = "unexpected char"

\* C16 as stated: the abort on an unclassifiable character carries the
\* character and its source position.
C16_PanicCarriesCharAndPosition ==
    UnexpectedAbort =>
        /\ Len(panic_msg) >= 3
        /\ panic_msg[2] = Get(idx)
        /\ panic_msg[3] = TruePos(idx)

\* C16: the abort on an unclassifiable character carries the offending
\* character and nothing else: no line, no column.
C16_PanicCarriesCharOnly ==
    UnexpectedAbort => panic_msg = <<"unexpected char", Get(idx)>>

C16_Witness ==
    /\ UnexpectedAbort
    /\ pos.line = 2
    /\ Get(idx) = "~"

\* A caller takes the k-th token of a returned sequence and calls
\* tokenize_code on the source text that token consumed: a new Lexer over
\* that text, an empty `tokens`.
Retokenize(k) ==
    /\ pc = "done"
    /\ expect = Tok("none")
    /\ k \in 1..Len(tokens)
    /\ strip_token(tokens[k]).kind # "Whitespace"
    /\ expect' = strip_token(tokens[k])
    /\ chars' = SourceText(k)
    /\ idx' = 0
    /\ pos' = Position(1, 1)
    /\ last_pos' = Position(1, 1)
    /\ tokens' = <<>>
    /\ pc' = "loop"
    /\ panic_msg' = <<>>
    /\ emitted' = <<>>
    /\ spans' = <<>>
    /\ calls' = <<>>
    /\ UNCHANGED other

RetokenizeAny == \E k \in 1..Len(tokens) : Retokenize(k)

NextRetokenize == Next \/ RetokenizeAny

\* tokenize_code, then tokenize_code again on the text of one of the tokens
SpecRetokenize == Init /\ [][NextRetokenize]_vars

\* the second call has ended and did not return the token alone
RetokenizeDiffers ==
    /\ expect # Tok("none")
    /\ \/ pc = "panic"
       \/ pc = "done" /\ (Len(tokens) # 1 \/ strip_token(tokens[1]) # expect)

\* C17: tokenizing the source text of a non-Whitespace token of a returned
\* sequence returns exactly one token, with the same Token value.
C17_RetokenizeReproduces == ~RetokenizeDiffers

\* the same for every token but Slash: what is left of C17 when the comment
\* arm taking a last '/' is set aside
C17_RetokenizeReproducesButSlash == expect # Tok("Slash") => ~RetokenizeDiffers

\* the eleven two-character operators
OperatorPairs ==
    { <<":", "=">>, <<"=", "=">>, <<"!", "=">>, <<">", "=">>, <<"<", "=">>,
      <<"[", "]">>, <<"-", ">">>, <<"+", "=">>, <<"-", "=">>, <<"*", "=">>,
      <<"/", "=">> }

\* the k-th iteration dispatched on a punctuation character followed by a
\* punctuation character, and the comment rule did not apply
PunctuationPairAt(k) ==
    LET f == spans[k].from
    IN  /\ f + 1 < Len(chars)
        /\ is_punctuation(Get(f))
        /\ is_punctuation(Get(f + 1))
        /\ ~(Get(f) = "/" /\ Get(f + 1) = "/")

\* C18: an iteration that dispatches on a punctuation character c followed by
\* d, with cd one of the eleven operators, emits one token, the operator's,
\* consumes exactly the two characters, and the token's end is the position
\* of d.
C18_PairConsumesTwo ==
    \A k \in 1..Len(emitted) :
        LET f == spans[k].from
        IN  (PunctuationPairAt(k) /\ <<Get(f), Get(f + 1)>> \in OperatorPairs) =>
                /\ emitted[k].token = double_token(Get(f), Get(f + 1))
                /\ emitted[k].token.kind # "none"
                /\ emitted[k].token # single_token(Get(f))
                /\ spans[k].last = f + 1
                /\ spans[k].to = f + 2
                /\ emitted[k].start = TruePos(f)
                /\ emitted[k].end = TruePos(f + 1)
                /\ k < Len(emitted) => spans[k + 1].from = f + 2

C18_Witness ==
    /\ Len(emitted) = 2
    /\ PunctuationPairAt(2)
    /\ <<Get(spans[2].from), Get(spans[2].from + 1)>> = <<"/", "=">>
    /\ emitted[2].start.line = 2

\* C19: an iteration that dispatches on a punctuation character c followed by
\* a punctuation character d, with cd not an operator, leaves the cursor where
\* it was before the lookahead: it emits the token of c alone with end equal
\* to start, consumes one character, and the next dispatch is on d at d's
\* position.
C19_RejectedLookaheadUndone ==
    \A k \in 1..Len(emitted) :
        LET f == spans[k].from
        IN  (PunctuationPairAt(k) /\ <<Get(f), Get(f + 1)>> \notin OperatorPairs) =>
                /\ emitted[k].token = single_token(Get(f))
                /\ emitted[k].token.kind # "none"
                /\ spans[k].last = f
                /\ spans[k].to = f + 1
                /\ emitted[k].start = TruePos(f)
                /\ emitted[k].end = emitted[k].start
                /\ k < Len(emitted) =>
                       /\ spans[k + 1].from = f + 1
                       /\ emitted[k + 1].start = TruePos(f + 1)
                /\ (k = Len(emitted) /\ pc = "loop") =>
                       /\ idx = f + 1
                       /\ pos = TruePos(f + 1)

C19_Witness ==
    /\ Len(emitted) = 3
    /\ PunctuationPairAt(2)
    /\ <<Get(spans[2].from), Get(spans[2].from + 1)>> = <<"=", ":">>
    /\ emitted[2].start.line = 2
    /\ emitted[3].token = Tok("Colon")

\* C20: increment_idx is invoked only when a character exists at the cursor
\* index, and the cursor index never exceeds the length of the input.
C20_IncrementOnlyInsideInput ==
    /\ \A i \in 1..Len(calls) : calls[i].op = "inc" => calls[i].at < Len(chars)
    /\ idx <= Len(chars)

\* what does hold: increment_idx is invoked at most one past the last
\* character, and only after a last '/' or a last backslash in a string
C20_IncrementAtMostOnePastEnd ==
    /\ \A i \in 1..Len(calls) : calls[i].op = "inc" => calls[i].at <= Len(chars) + 1
    /\ idx <= Len(chars) + 2
    /\ idx = Len(chars) + 2 => chars[Len(chars)] \in {"/", "\\"}

\* C21: in the sequence of increment_idx and decrement_idx calls every
\* decrement_idx comes right after an increment_idx (the one it undoes), so
\* there are never two retreats in a row, and decrement_idx is never called
\* with index 0.
C21_RetreatFollowsAdvance ==
    \A i \in 1..Len(calls) :
        calls[i].op = "dec" =>
            /\ calls[i].at > 0
            /\ i > 1
            /\ calls[i - 1].op = "inc"
            /\ calls[i - 1].at = calls[i].at - 1

C21_Witness ==
    /\ Len(calls) >= 6
    /\ \E i, j \in 1..Len(calls) :
           /\ i + 2 <= j
           /\ calls[i].op = "dec"
           /\ calls[j].op = "dec"
    /\ emitted[1].token.kind = "Ident"
    /\ \E k \in 1..Len(emitted) :
           PunctuationPairAt(k) /\ emitted[k].token.kind = "Colon"

\* every iteration so far started inside the input, where the one before
\* left the cursor, and ended with the cursor index greater than at its
\* start; there are no more iterations than characters
IterationsAdvance ==
    /\ \A k \in 1..Len(spans) :
           /\ spans[k].from < spans[k].to
           /\ spans[k].from < Len(chars)
           /\ spans[k].from = (IF k = 1 THEN 0 ELSE spans[k - 1].to)
    /\ Len(emitted) = Len(spans)
    /\ Len(spans) <= Len(chars)
    /\ Len(tokens) <= Len(chars)
    /\ idx = (IF spans = <<>> THEN 0 ELSE spans[Len(spans)].to) \/ pc = "panic"
    /\ idx <= Len(chars) + 2

\* inside the loop the loop condition fails, which ends the loop, or one arm
\* of the match takes the current character
SomeStepApplies ==
    LET ch == get_current_char(Cur)
    IN  \/ ch = None
        \/ is_whitespace(ch)
        \/ is_identifier(ch)
        \/ ch = "\""
        \/ ch = "/" /\ comment_guard(Cur)
        \/ NotTaken /\ is_number(ch)
        \/ NotTaken /\ ~is_number(ch) /\ is_punctuation(ch)
        \/ NotTaken /\ ~is_number(ch) /\ ~is_punctuation(ch)

\* C22: tokenize_code terminates on every input, by returning or by
\* aborting: each iteration of the main loop leaves the cursor index greater
\* than it found it, the index is bounded, and inside the loop a step is
\* always possible; so there are at most as many iterations, and as many
\* tokens, as the input has characters.
C22_Terminates ==
    /\ IterationsAdvance
    /\ pc = "loop" => SomeStepApplies

C22_Witness ==
    /\ pc = "done"
    /\ Len(chars) = 3
    /\ Len(tokens) = 3

\* the longest input of SpecPunctuation
MaxChars == 2

\* the printable ASCII characters that are neither letters nor digits (but
\* for the grave accent, which a string of this notation cannot hold)
AsciiSymbols ==
    { " ", "!", "\"", "#", "$", "%", "&", "'", "(", ")", "*", "+", ",", "-",
      ".", "/", ":", ";", "<", "=", ">", "?", "@", "[", "\\", "]", "^", "_",
      "{", "|", "}", "~" }

PrintableAscii == AsciiSymbols \cup Letters \cup Digits

\* every punctuation character, and one character for each other arm
CharPool == { c \in PrintableAscii : is_punctuation(c) } \cup { " ", "t", "\"", "7", "~" }

RECURSIVE SeqsUpTo(_, _)
SeqsUpTo(S, n) ==
    IF n = 0 THEN { <<>> }
    ELSE LET prev == SeqsUpTo(S, n - 1)
         IN  prev \cup { Append(p, c) : p \in prev, c \in S }

InitPunctuation ==
    /\ chars \in SeqsUpTo(CharPool, MaxChars)
    /\ idx = 0
    /\ pos = Position(1, 1)
    /\ last_pos = Position(1, 1)
    /\ tokens = <<>>
    /\ pc = "loop"
    /\ panic_msg = <<>>
    /\ emitted = <<>>
    /\ spans = <<>>
    /\ calls = <<>>
    /\ expect = Tok("none")
    /\ other = NoOutcome

\* tokenize_code on the short inputs over every punctuation character
SpecPunctuation == InitPunctuation /\ [][Next]_vars

\* C23: every character is_punctuation accepts has an entry in the table of
\* single characters, so the fallback of the punctuation arm is never
\* reached: a dispatch on a punctuation character emits the token of the
\* character or of the pair it starts.
C23_PunctuationTableComplete ==
    /\ \A c \in PrintableAscii : is_punctuation(c) => single_token(c).kind # "none"
    /\ ~(pc = "panic" /\ panic_msg[1] = "punctuation")
    /\ \A k \in 1..Len(emitted) :
           LET c == Get(spans[k].from)
               d == Get(spans[k].from + 1)
           IN  (is_punctuation(c) /\ emitted[k].token.kind # "Comment") =>
                   /\ emitted[k].token.kind # "none"
                   /\ \/ emitted[k].token = single_token(c)
                      \/ emitted[k].token = double_token(c, d)

C23_Witness ==
    /\ pc = "done"
    /\ chars = <<"^", "|">>
    /\ Len(tokens) = 2
    /\ tokens[1].token = Tok("Caret")
    /\ tokens[2].token = Tok("VerticalBar")

\* the closures of the call sites of collect_until and skip_until
Conds == { "not_whitespace", "not_identifier_or_number", "newline", "not_number_or_dot" }

\* the number of consecutive characters from index i that do not satisfy cond
RECURSIVE RunLength(_, _)
RunLength(i, cond) ==
    IF i < Len(chars) /\ ~cond_holds(cond, chars[i + 1])
    THEN 1 + RunLength(i + 1, cond)
    ELSE 0

\* the cursor is on a character, which does not satisfy cond
OnRunOf(cond) == idx < Len(chars) /\ ~cond_holds(cond, Get(idx))

\* C24: called on a character that does not satisfy the condition,
\* skip_until returns the number of consecutive characters from the cursor
\* that do not satisfy it, whether the run is ended by a character or by the
\* end of the input.
C24_SkipUntilCountsRun ==
    \A cond \in Conds :
        OnRunOf(cond) => skip_until(Cur, cond).n = RunLength(idx, cond)

\* the same for the runs that a character ends
C24_SkipUntilCountsEndedRun ==
    \A cond \in Conds :
        (OnRunOf(cond) /\ idx + RunLength(idx, cond) < Len(chars)) =>
            skip_until(Cur, cond).n = RunLength(idx, cond)

\* the run that the end of the input ends is counted one too many
C24_SkipUntilCountsOpenRun ==
    \A cond \in Conds :
        (OnRunOf(cond) /\ idx + RunLength(idx, cond) = Len(chars)) =>
            skip_until(Cur, cond).n = RunLength(idx, cond) + 1

PosLess(a, b) == a.line < b.line \/ (a.line = b.line /\ a.column < b.column)

\* C25: every returned token has start <= end in (line, column) order, and
\* of two consecutive returned tokens the earlier ends strictly before the
\* later starts.
C25_SpansDoNotOverlap ==
    pc = "done" =>
        /\ \A k \in 1..Len(tokens) : PosLeq(tokens[k].start, tokens[k].end)
        /\ \A k \in 1..Len(tokens) - 1 : PosLess(tokens[k].end, tokens[k + 1].start)

C25_Witness ==
    /\ pc = "done"
    /\ Len(tokens) = 3
    /\ tokens[1].token.kind = "Ident"
    /\ tokens[2].token = Whitespace(1)
    /\ tokens[3].start = Position(2, 1)

\* the tokens collect_until gathers, and the array type
CollectedKinds == { "Ident", "Keyword", "BuiltinType", "Number", "Comment" }

\* C26: the end of a returned Ident, Keyword, BuiltinType, Number or Comment
\* token is the source position of the token's last character, whether
\* another character follows the token or the input ends with it.
C26_EndIsLastCharEverywhere ==
    pc = "done" =>
        \A k \in 1..Len(tokens) :
            tokens[k].token.kind \in CollectedKinds =>
                tokens[k].end = TruePos(LastIdx(k))

\* the same for the tokens that another character follows
C26_EndIsLastCharBeforeMore ==
    pc = "done" =>
        \A k \in 1..Len(tokens) :
            (tokens[k].token.kind \in CollectedKinds /\ spans[k].to < Len(chars)) =>
                tokens[k].end = TruePos(LastIdx(k))

\* a token collected up to the end of the input ends one column after its
\* last character
C26_EndIsPastLastCharAtEndOfInput ==
    pc = "done" =>
        \A k \in 1..Len(tokens) :
            (tokens[k].token.kind \in { "Ident", "Keyword", "Number" }
               /\ spans[k].last = Len(chars)) =>
                tokens[k].end = Advance(TruePos(Len(chars) - 1), chars[Len(chars)])

\* The earlier copy of the tokenizer, lex_code (src/src/lexer.rs).  Its Lexer
\* and its arms have the text of tokenize_code's but for the lookahead of the
\* punctuation arm, which moves `lexer.idx` itself.
lex_double_matched(L) ==
    LET ch == get_current_char(L)
        next_ch == peek_next_char(L)
    IN  IF next_ch # None /\ is_punctuation(next_ch)
        THEN LET l1 == [L EXCEPT !.idx = L.idx + 1]
                 t == double_token(ch, next_ch)
             IN  IF t.kind # "none" THEN [lexer |-> l1, token |-> t]
                 ELSE [lexer |-> [l1 EXCEPT !.idx = l1.idx - 1], token |-> t]
        ELSE [lexer |-> L, token |-> Tok("none")]

lex_punctuation_arm(L) ==
    LET ch == get_current_char(L)
        d == lex_double_matched(L)
    IN  IF d.token.kind # "none" THEN Arm(d.lexer, d.token)
        ELSE IF single_token(ch).kind # "none" THEN Arm(d.lexer, single_token(ch))
        ELSE Panic(d.lexer, <<"punctuation", ch>>)

LexPunctuationStep ==
    /\ other # NoOutcome
    /\ InLoop
    /\ NotTaken
    /\ ~is_number(get_current_char(Cur))
    /\ is_punctuation(get_current_char(Cur))
    /\ Iteration(lex_punctuation_arm(Cur))

\* a step of tokenize_code, before lex_code is called
TokenizeStep == other = NoOutcome /\ Next

\* a step of lex_code in an arm, or after the loop, that has the text of
\* tokenize_code's
LexSharedStep ==
    /\ other # NoOutcome
    /\ \/ WhitespaceStep
       \/ IdentifierStep
       \/ StringStep
       \/ CommentStep
       \/ NumberStep
       \/ UnexpectedStep
       \/ Return

\* tokenize_code has ended; lex_code is called on the same input
CallLexCode ==
    /\ pc \in {"done", "panic"}
    /\ other = NoOutcome
    /\ other' = Outcome(pc, tokens, panic_msg)
    /\ idx' = 0
    /\ pos' = Position(1, 1)
    /\ last_pos' = Position(1, 1)
    /\ tokens' = <<>>
    /\ pc' = "loop"
    /\ panic_msg' = <<>>
    /\ emitted' = <<>>
    /\ spans' = <<>>
    /\ calls' = <<>>
    /\ UNCHANGED <<chars, expect>>

NextBothCopies ==
    \/ TokenizeStep
    \/ CallLexCode
    \/ LexSharedStep
    \/ LexPunctuationStep

\* tokenize_code, then lex_code on the same input
SpecBothCopies == Init /\ [][NextBothCopies]_vars

\* lex_code has ended
LexCodeEnded == other.pc # "none" /\ pc \in {"done", "panic"}

\* C27: lex_code and tokenize_code give the same result on every input: both
\* return, with the same tokens at the same positions, or both abort.
C27_CopiesAgree ==
    LexCodeEnded =>
        /\ pc = other.pc
        /\ tokens = other.tokens

\* tokenize_code returned a token made of two punctuation characters
HasPairToken ==
    \E k \in 1..Len(other.tokens) :
        \E p \in OperatorPairs : other.tokens[k].token = double_token(p[1], p[2])

\* the copies agree on the inputs without a two-character operator
C27_CopiesAgreeWithoutPairs == (LexCodeEnded /\ ~HasPairToken) => (pc = other.pc /\ tokens = other.tokens)

\* the index at which collect_until(cond) called at the cursor stops: the
\* first index at or after the cursor whose character satisfies cond, or the
\* first index without a character
StopIndex(cond) == idx + RunLength(idx, cond)

\* the decrement_idx calls in a log of calls
Retreats(cs) == Cardinality({ i \in 1..Len(cs) : cs[i].op = "dec" })

\* collect_until can be called here: not at index 0 on a character that
\* satisfies cond, where the retreat would take the index below 0
Collectable(cond) == StopIndex(cond) > 0

\* C28 as stated: stopped by a character that satisfies the condition,
\* collect_until leaves the index on that character; stopped by the end of
\* the input, it leaves the index at the length, without a retreat.
C28_StopsOnConditionChar ==
    \A cond \in Conds :
        Collectable(cond) =>
            LET r == collect_until(Cur, cond)
            IN  IF StopIndex(cond) < Len(chars)
                THEN r.lexer.idx = StopIndex(cond)
                ELSE /\ r.lexer.idx = Len(chars)
                     /\ Retreats(r.lexer.calls) = Retreats(calls)

\* C28: stopped by a character that satisfies the condition, collect_until
\* retreats once and leaves the index one before that character, on the last
\* character it collected; stopped by the end of the input, it makes no
\* retreat and leaves the index at the length (where it was, if it was called
\* past the end).  It returns the characters between.
C28_StopsBeforeConditionChar ==
    \A cond \in Conds :
        Collectable(cond) =>
            LET r == collect_until(Cur, cond)
            IN  /\ r.s = SubSeq(chars, idx + 1, StopIndex(cond))
                /\ IF StopIndex(cond) < Len(chars)
                   THEN /\ r.lexer.idx = StopIndex(cond) - 1
                        /\ Retreats(r.lexer.calls) = Retreats(calls) + 1
                        /\ cond_holds(cond, Get(r.lexer.idx + 1))
                   ELSE /\ r.lexer.idx = (IF idx > Len(chars) THEN idx ELSE Len(chars))
                        /\ Retreats(r.lexer.calls) = Retreats(calls)

\* the identifier arm has called collect_until, which a space stopped
C28_Witness ==
    /\ Len(emitted) = 1
    /\ emitted[1].token = Ident(<<"p", "o", "i", "n", "t">>)
    /\ Get(5) = " "
    /\ spans[1].last = 4
    /\ calls[6] = [op |-> "dec", at |-> 5]

====
